---- MODULE Spec2Model ----
(***************************************************************************)
(* Naya Daur dashboard: the backoff fetcher (fetchWithBackoff) and the     *)
(* two-phase grounded JSON retriever (fetchGroundedJson) of src/App.jsx.   *)
(*                                                                         *)
(* An invocation is either a direct call                                   *)
(* fetchWithBackoff(url, options, r, d) or a call of fetchGroundedJson,    *)
(* which calls fetchWithBackoff twice with the default arguments.  The     *)
(* recursion of fetchWithBackoff is kept as an explicit stack of frames,   *)
(* because a frame that executed `return fetchWithBackoff(...)` has left   *)
(* its try block: what the inner call does afterwards is not seen by the   *)
(* outer frame's catch.  The network is the environment: each request is   *)
(* answered by a 2xx response, a non-2xx response or a transport failure.  *)
(*                                                                         *)
(* The handlers of the tabs that await these calls, and the error toast,   *)
(* tabs and API key of App, follow: each handler's state setters act on    *)
(* the state of its tab when the call it awaits settles.                   *)
(*                                                                         *)
(* A definition whose name ends in M is a faulty variant of the definition *)
(* that follows it (a plausible slip in the same line of code); each       *)
(* property below is also checked to fail under one of them.               *)
(***************************************************************************)
EXTENDS Integers, Sequences, FiniteSets, TLC

VARIABLES
    pc,            \* position of the top-level caller
    call,          \* the top-level call and its arguments
    stack,         \* frames of fetchWithBackoff, innermost last
    inflight,      \* network requests issued and not yet answered
    groundedText,  \* fetchGroundedJson's groundedText (line 120)
    events,        \* history: progress notifications, requests, responses, waits
    result,        \* the promise of the top-level call
    response,      \* the response the innermost frame is handling
    tab,           \* state of PersonaArchitectTab: isLoading, loadingMessage, result
    other,         \* a second invocation, while the event loop runs the first
    analyzer,      \* state of MarketPositionAnalyzerTab
    forge,         \* state of CampaignForgeTab
    app            \* state of App: apiKey, activeTab, error, showApiKeyModal, timers

vars == <<pc, call, stack, inflight, groundedText, events, result, response, tab,
          other, analyzer, forge, app>>

---------------------------------------------------------------------------
(* Bounds of the model and constants of the program *)

MaxRetries == 3          \* largest `retries` argument of a direct call
DefaultRetries == 3      \* retries = 3
DefaultDelay == 1000     \* delay = 1000
TooManyRequests == 429   \* response.status === 429

DelayArgs == {1, DefaultDelay}      \* `delay` arguments of a direct call
OtherStatuses == {500}              \* non-2xx statuses other than 429
NotOkStatuses == {TooManyRequests} \cup OtherStatuses

\* bodies of a non-2xx response, as response.json() and ?.error?.message see them
ErrorBodies == {"notjson", "nomessage", "emptymessage", "message"}

\* texts are sequences of characters over the alphabet { } [ ] ,
TextPool ==
    { <<>>,
      <<"{", "}">>,
      <<"[", "{", "}", ",", "[", "]", "]">>,
      <<"[", "{", "}">> }

\* bodies of a 2xx response, as response.json() and the ?. chain see them
OkBodies ==
    { [shape |-> s, text |-> <<>>] :
          s \in {"unparseable", "null", "nocandidates", "notext"} }
    \cup { [shape |-> "text", text |-> t] : t \in TextPool }

---------------------------------------------------------------------------
(* Values *)

NoError == [type |-> "none", status |-> 0, detail |-> "none", attempt |-> 0]
NoValue == [shape |-> "none", text |-> <<>>]

Pending == [state |-> "pending", value |-> NoValue, error |-> NoError]
Fulfilled(v) == [state |-> "fulfilled", value |-> v, error |-> NoError]
Rejected(e) == [state |-> "rejected", value |-> NoValue, error |-> e]

\* an event of the history: n is the step, the attempt or the delay; kind and
\* text describe a response
Ev(e, phase, n, kind, text) ==
    [e |-> e, phase |-> phase, n |-> n, kind |-> kind, text |-> text]

Front(s) == SubSeq(s, 1, Len(s) - 1)
Last(s) == s[Len(s)]

\* how many events of kind e the history holds for a phase
Count(ev, e, phase) ==
    Cardinality({i \in 1..Len(ev) : ev[i].e = e /\ ev[i].phase = phase})

---------------------------------------------------------------------------
(* JSON.parse on texts of tokens: objects, arrays of values and the numbers *)
(* 0, 1, 2.  A value is [t, v]: v holds the elements of an array, the      *)
(* members [k, val] of an object, the digit of a number.                   *)

Digits == {"0", "1", "2"}
Keys == {"concepts", "id"}

\* the members of an object after the member k: val is set
SetMember(members, k, val) ==
    IF \E j \in 1..Len(members) : members[j].k = k
    THEN [j \in 1..Len(members) |->
             IF members[j].k = k THEN [k |-> k, val |-> val] ELSE members[j]]
    ELSE Append(members, [k |-> k, val |-> val])

ParseFail == [ok |-> FALSE, val |-> [t |-> "none", v |-> <<>>], next |-> 0]
ParseOk(t, v, next) == [ok |-> TRUE, val |-> [t |-> t, v |-> v], next |-> next]

RECURSIVE ParseValue(_, _), ParseElements(_, _, _), ParseMembers(_, _, _)
ParseValue(s, i) ==
    IF i > Len(s) THEN ParseFail
    ELSE IF s[i] = "{"
         THEN IF i + 1 <= Len(s) /\ s[i + 1] = "}"
              THEN ParseOk("obj", <<>>, i + 2)
              ELSE ParseMembers(s, i + 1, <<>>)
    ELSE IF s[i] = "["
         THEN IF i + 1 <= Len(s) /\ s[i + 1] = "]"
              THEN ParseOk("arr", <<>>, i + 2)
              ELSE ParseElements(s, i + 1, <<>>)
    ELSE IF s[i] \in Digits THEN ParseOk("num", <<s[i]>>, i + 1)
    ELSE ParseFail

ParseMembers(s, i, acc) ==
    IF i + 1 > Len(s) THEN ParseFail
    ELSE IF s[i] \notin Keys \/ s[i + 1] # ":" THEN ParseFail
    ELSE LET r == ParseValue(s, i + 2) IN
         IF ~r.ok \/ r.next > Len(s) THEN ParseFail
         ELSE IF s[r.next] = ","
              THEN ParseMembers(s, r.next + 1, SetMember(acc, s[i], r.val))
         ELSE IF s[r.next] = "}"
              THEN ParseOk("obj", SetMember(acc, s[i], r.val), r.next + 1)
         ELSE ParseFail

ParseElements(s, i, acc) ==
    LET r == ParseValue(s, i) IN
    IF ~r.ok \/ r.next > Len(s) THEN ParseFail
    ELSE IF s[r.next] = "," THEN ParseElements(s, r.next + 1, Append(acc, r.val))
    ELSE IF s[r.next] = "]" THEN ParseOk("arr", Append(acc, r.val), r.next + 1)
    ELSE ParseFail

\* JSON.parse(jsonText): the whole text must be one value
JsonParse(s) ==
    LET r == ParseValue(s, 1) IN
    IF r.ok /\ r.next = Len(s) + 1 THEN r ELSE ParseFail

---------------------------------------------------------------------------
(* fetchWithBackoff: the expressions of one frame *)

\* response.status === 429 && retries > 0
IsThrottled(status, retries) == status = TooManyRequests /\ retries > 0

\* catch (error) { if (retries > 0) ...
RetriesRemainM(retries) == retries >= 0
RetriesRemain(retries) == retries > 0

\* the arguments of the recursive call: retries - 1, delay * 2
NextRetriesM(retries) == retries - 2
NextRetries(retries) == retries - 1
NextDelayM(delay) == delay + DefaultDelay
NextDelay(delay) == delay * 2

\* detailedMessage: errorBody?.error?.message || response.statusText, where a
\* body that is not JSON leaves the status text in place
DetailedMessageM(ebody) ==
    IF ebody = "message" THEN "bodyMessage"
    ELSE IF ebody = "emptymessage" THEN "" ELSE "statusText"
DetailedMessage(ebody) == IF ebody = "message" THEN "bodyMessage" ELSE "statusText"

\* new Error(`API Error: ${response.status} ${detailedMessage}`)
ApiError(status, ebody, attempt) ==
    [type |-> "ApiError", status |-> status, detail |-> DetailedMessage(ebody),
     attempt |-> attempt]

\* the error fetch() rejects with on a transport failure
TransportError(attempt) ==
    [type |-> "TransportError", status |-> 0, detail |-> "none", attempt |-> attempt]

\* the error response.json() rejects with when a 2xx body is not JSON
BodySyntaxError(attempt) ==
    [type |-> "SyntaxError", status |-> 0, detail |-> "body", attempt |-> attempt]

\* `return p` without await inside try: the rejection of p settles the frame's
\* promise and does not reach the frame's catch.  site "json" is
\* `return response.json()`, site "recurse" is `return fetchWithBackoff(...)`
AwaitsRecursionM(site) == site = "recurse"
AwaitsJsonM(site) == site = "json"
AwaitsReturned(site) == FALSE

NewFrameM(retries, delay) ==
    [retries |-> retries,
     delay |-> IF delay > 2 * DefaultDelay THEN 2 * DefaultDelay ELSE delay,
     pc |-> "awaitFetch", error |-> NoError]
NewFrame(retries, delay) ==
    [retries |-> retries, delay |-> delay, pc |-> "awaitFetch", error |-> NoError]

\* what a frame does with an error thrown inside its try block
StepBackoff(f, err) ==
    [settled |-> FALSE, frame |-> [f EXCEPT !.pc = "backoff", !.error = err],
     out |-> Pending]
StepSettle(f, out) == [settled |-> TRUE, frame |-> f, out |-> out]

Catch(f, err) ==
    IF RetriesRemain(f.retries) THEN StepBackoff(f, err)
    ELSE StepSettle(f, Rejected(err))

\* the promise of a frame that returned the promise `inner` of its recursive call
ReturnedPromiseM(f, inner) ==
    IF inner.state = "rejected" /\ f.error # NoError THEN Rejected(f.error) ELSE inner
ReturnedPromise(f, inner) == inner

\* the frame's continuation after `await fetch(url, options)` resolved with a
\* 2xx response: return response.json()
OnOk(f, body, attempt) ==
    IF body.shape = "unparseable"
    THEN IF AwaitsReturned("json")
         THEN Catch(f, BodySyntaxError(attempt))
         ELSE StepSettle(f, Rejected(BodySyntaxError(attempt)))
    ELSE StepSettle(f, Fulfilled(body))

\* ... with a non-2xx response
OnNotOk(f, status, ebody, attempt) ==
    IF IsThrottled(status, f.retries) THEN StepBackoff(f, NoError)
    ELSE Catch(f, ApiError(status, ebody, attempt))

\* ... after fetch() rejected
OnFetchThrows(f, attempt) == Catch(f, TransportError(attempt))

\* the outer frames, each of which returned the promise of the frame above it
RECURSIVE Unwind(_, _)
Unwind(stk, out) ==
    IF stk = <<>> THEN [stack |-> <<>>, out |-> out]
    ELSE LET f == Last(stk)
             o == ReturnedPromise(f, out)
         IN IF o.state = "rejected" /\ AwaitsReturned("recurse")
                 /\ RetriesRemain(f.retries)
            THEN [stack |-> Append(Front(stk), [f EXCEPT !.pc = "backoff", !.error = o.error]),
                  out |-> Pending]
            ELSE Unwind(Front(stk), o)

\* the stack and the outcome of the top-level fetchWithBackoff call after the
\* innermost frame made the step r
AfterStep(stk, r) ==
    IF r.settled THEN Unwind(Front(stk), r.out)
    ELSE [stack |-> Append(Front(stk), r.frame), out |-> Pending]

---------------------------------------------------------------------------
(* fetchGroundedJson *)

Undefined == [def |-> FALSE, text |-> <<>>]
Text(t) == [def |-> TRUE, text |-> t]

\* data.candidates?.[0]?.content?.parts?.[0]?.text of a parsed body that is
\* not null
FirstText(body) == IF body.shape = "text" THEN Text(body.text) ELSE Undefined

\* JavaScript truthiness of a string or undefined: if (jsonText), !groundedText
TruthyM(x) == x.def
Truthy(x) == x.def /\ x.text # <<>>

\* reading .candidates of null throws
NullBodyError(phase) ==
    [type |-> "TypeError", status |-> 0, detail |-> "candidates of null", attempt |-> phase]
Step1Failed == [type |-> "Error", status |-> 0, detail |-> "Step 1 Failed", attempt |-> 0]
Step2Failed == [type |-> "Error", status |-> 0, detail |-> "Step 2 Failed", attempt |-> 0]
JsonSyntaxError == [type |-> "SyntaxError", status |-> 0, detail |-> "JSON.parse", attempt |-> 0]

\* the call's own phase of a request: 0 for a direct fetchWithBackoff call
PhaseOf(p) == CASE p = "phase1" -> 1 [] p = "phase2" -> 2 [] OTHER -> 0

\* setLoadingMessage("Step n/2: ...")
ProgressM(step) == Ev("progress", 1, 1, "", <<>>)
Progress(step) == Ev("progress", step, step, "", <<>>)
\* fetch(url, options) called: the attempt-th request of the phase
Request(phase, attempt) == Ev("req", phase, attempt, "", <<>>)
\* a response: kind is the shape of a 2xx body, or "429", "error", "throw"
Response(phase, attempt, kind, text) == Ev("resp", phase, attempt, kind, text)
\* the timer of setTimeout(res, delay) fired
Wait(phase, delay) == Ev("wait", phase, delay, "", <<>>)

\* the return statement of fetchGroundedJson: JSON.parse(jsonText) or the throw
Step2OutcomeRawM(jsonText) ==
    IF Truthy(jsonText)
    THEN IF JsonParse(jsonText.text).ok
         THEN Fulfilled([t |-> "str", v |-> jsonText.text])
         ELSE Rejected(JsonSyntaxError)
    ELSE Rejected(Step2Failed)
Step2OutcomeM(jsonText) ==
    IF jsonText.def
    THEN IF JsonParse(jsonText.text).ok
         THEN Fulfilled(JsonParse(jsonText.text).val)
         ELSE Rejected(JsonSyntaxError)
    ELSE Rejected(Step2Failed)
Step2Outcome(jsonText) ==
    IF Truthy(jsonText)
    THEN IF JsonParse(jsonText.text).ok
         THEN Fulfilled(JsonParse(jsonText.text).val)
         ELSE Rejected(JsonSyntaxError)
    ELSE Rejected(Step2Failed)

\* whether fetchGroundedJson goes on to step 2 with this step-1 body
Step1PassesM(body) == body.shape # "null"
Step1Passes(body) == body.shape # "null" /\ Truthy(FirstText(body))

Step1Error(body) ==
    IF body.shape = "null" THEN NullBodyError(1) ELSE Step1Failed

\* the frame of the fetchWithBackoff call of step 2 (line 147), made while
\* `last` was the innermost of the frames step 1 leaves behind
Step2CallM(last) == NewFrame(last.retries, last.delay)
Step2Call(last) == NewFrame(DefaultRetries, DefaultDelay)

\* The state after the innermost frame made the step r: the frames unwind, and
\* when the top-level fetchWithBackoff call settled its caller continues.
Resume(r, ev) ==
    LET u == AfterStep(stack, r)
        frozen == [pc |-> pc, stack |-> u.stack, inflight |-> inflight - 1,
                   groundedText |-> groundedText, events |-> ev, result |-> result]
        finished(out) == [frozen EXCEPT !.pc = "done", !.result = out]
    IN  IF u.out.state = "pending" THEN frozen
        ELSE IF pc = "fetch" THEN finished(u.out)
        ELSE IF u.out.state = "rejected" THEN finished(u.out)
        ELSE IF pc = "phase1"
             THEN IF Step1Passes(u.out.value)
                  THEN [frozen EXCEPT
                          !.pc = "phase2",
                          !.groundedText = FirstText(u.out.value),
                          !.events = ev \o <<Progress(2), Request(2, 1)>>,
                          !.stack = <<Step2Call(Last(stack))>>,
                          !.inflight = 1]
                  ELSE [finished(Rejected(Step1Error(u.out.value))) EXCEPT
                          !.groundedText =
                              IF u.out.value.shape = "null" THEN groundedText
                              ELSE FirstText(u.out.value)]
        ELSE IF u.out.value.shape = "null" THEN finished(Rejected(NullBodyError(2)))
        ELSE finished(Step2Outcome(FirstText(u.out.value)))

\* the response object of a frame: its status and, once response.json() was
\* called on a non-2xx response, what the body turned out to be
NoResponse == [status |-> 0, ebody |-> "none"]
OkStatus == 200
OkResponse == [status |-> OkStatus, ebody |-> "none"]
NotOkResponse(status, ebody, retries) ==
    [status |-> status,
     ebody |-> IF IsThrottled(status, retries) THEN "unread" ELSE ebody]

---------------------------------------------------------------------------
(* PersonaArchitectTab.handleGenerate *)

Null == [t |-> "null", v |-> <<>>]
NoApiKey == [type |-> "Error", status |-> 0, detail |-> "Please set your API Key",
             attempt |-> 0]
InitialTab == [isLoading |-> FALSE, loadingMessage |-> "", result |-> Null,
               reported |-> NoError]
ApiKeys == {"", "key"}

\* a top-level call: its function and arguments, and what the closure of a
\* handler holds (the apiKey prop, the selected concept)
NoCall == [fn |-> "none", retries |-> 0, delay |-> 0, apiKey |-> "", concept |-> Null]
TopCall(fn, r, d) ==
    [fn |-> fn, retries |-> r, delay |-> d, apiKey |-> "key", concept |-> Null]
HandlerCall(fn, apiKey, concept) ==
    [fn |-> fn, retries |-> DefaultRetries, delay |-> DefaultDelay,
     apiKey |-> apiKey, concept |-> concept]

\* setIsLoading(true); setResult(null); and the first setLoadingMessage
HandlerStartM(t) ==
    [t EXCEPT !.isLoading = TRUE, !.loadingMessage = "Step 1/2", !.reported = NoError]
HandlerStart(t) ==
    [t EXCEPT !.isLoading = TRUE, !.result = Null, !.loadingMessage = "Step 1/2",
              !.reported = NoError]

\* try { setResult(data) } catch (err) { onError(err.message || ...) }
\* finally { setIsLoading(false); setLoadingMessage('') }
HandlerSettle(t, out) ==
    [(IF out.state = "fulfilled" THEN [t EXCEPT !.result = out.value]
      ELSE [t EXCEPT !.reported = out.error])
     EXCEPT !.isLoading = FALSE, !.loadingMessage = ""]

\* the tab after a step of the retrieval that handleGenerate awaits
TabAfter(n) ==
    IF call.fn # "handleGenerate" THEN tab
    ELSE IF n.pc = "done" THEN HandlerSettle(tab, n.result)
    ELSE IF n.pc = "phase2" THEN [tab EXCEPT !.loadingMessage = "Step 2/2"]
    ELSE tab

---------------------------------------------------------------------------
(* MarketPositionAnalyzerTab.handleGenerateAnalysis *)

\* the tab after a step of the retrieval that handleGenerateAnalysis awaits
AnalyzerAfter(n) ==
    IF call.fn # "handleGenerateAnalysis" THEN analyzer
    ELSE IF n.pc = "done" THEN HandlerSettle(analyzer, n.result)
    ELSE IF n.pc = "phase2" THEN [analyzer EXCEPT !.loadingMessage = "Step 2/2"]
    ELSE analyzer

---------------------------------------------------------------------------
(* CampaignForgeTab *)

\* imagesFor is history: the concept the stored images were requested for
InitialForge ==
    [isStrategyLoading |-> FALSE, loadingMessage |-> "", isImageLoading |-> FALSE,
     strategyResult |-> Null, selectedConcept |-> Null, generatedImages |-> <<>>,
     imagesFor |-> Null, reported |-> NoError]

UndefinedValue == [t |-> "undefined", v |-> <<>>]

\* val[k], undefined when val has no such member
Get(val, k) ==
    IF val.t = "obj" /\ \E j \in 1..Len(val.v) : val.v[j].k = k
    THEN val.v[CHOOSE j \in 1..Len(val.v) : val.v[j].k = k].val
    ELSE UndefinedValue

\* JavaScript truthiness of a value: 0, null and undefined are falsy
TruthyValue(val) == val.t \in {"obj", "arr"} \/ (val.t = "num" /\ val.v # <<"0">>)

Number(n) == [t |-> "num", v |-> <<ToString(n)>>]

\* the own members that { ...concept } copies
Spread(concept) ==
    IF concept.t = "obj" THEN concept.v
    ELSE IF concept.t = "arr"
         THEN [j \in 1..Len(concept.v) |-> [k |-> ToString(j - 1), val |-> concept.v[j]]]
    ELSE <<>>

\* ({ ...concept, id: concept.id || index + 1 }), position = index + 1
WithId(concept, position) ==
    [t |-> "obj",
     v |-> SetMember(Spread(concept), "id",
               IF TruthyValue(Get(concept, "id")) THEN Get(concept, "id")
               ELSE Number(position))]

ConceptsTypeError ==
    [type |-> "TypeError", status |-> 0, detail |-> "data.concepts.map", attempt |-> 0]
PredictionsTypeError ==
    [type |-> "TypeError", status |-> 0, detail |-> "predictions of null", attempt |-> 0]
NoImages ==
    [type |-> "Error", status |-> 0, detail |-> "No images returned from API.",
     attempt |-> 0]
SelectConceptFirst ==
    [type |-> "Error", status |-> 0, detail |-> "Please select a concept first.",
     attempt |-> 0]

\* data.concepts = data.concepts.map(...): throws unless data.concepts is an array
AssignIds(data) ==
    LET cs == Get(data, "concepts") IN
    IF cs.t # "arr" THEN [ok |-> FALSE, val |-> Null]
    ELSE [ok |-> TRUE,
          val |-> [t |-> "obj",
                   v |-> SetMember(data.v, "concepts",
                            [t |-> "arr",
                             v |-> [j \in 1..Len(cs.v) |-> WithId(cs.v[j], j)]])]]

\* the concepts the concept list renders as buttons
Concepts(strategyResult) ==
    LET cs == Get(strategyResult, "concepts") IN
    IF cs.t = "arr" THEN {cs.v[j] : j \in 1..Len(cs.v)} ELSE {}

\* handleGenerateStrategy up to the try block, with the first setLoadingMessage
StrategyStartM(f) ==
    [f EXCEPT !.isStrategyLoading = TRUE, !.strategyResult = Null,
              !.generatedImages = <<>>, !.loadingMessage = "Step 1/2",
              !.reported = NoError]
StrategyStart(f) ==
    [f EXCEPT !.isStrategyLoading = TRUE, !.strategyResult = Null,
              !.selectedConcept = Null, !.generatedImages = <<>>,
              !.loadingMessage = "Step 1/2", !.reported = NoError]

\* try { ...; setStrategyResult(data) } catch (err) { onError(...) }
\* finally { setIsStrategyLoading(false); setLoadingMessage('') }
StrategySettleM(f, out) ==
    IF out.state = "fulfilled"
    THEN IF AssignIds(out.value).ok
         THEN [f EXCEPT !.strategyResult = AssignIds(out.value).val,
                        !.isStrategyLoading = FALSE, !.loadingMessage = ""]
         ELSE [f EXCEPT !.reported = ConceptsTypeError]
    ELSE [f EXCEPT !.reported = out.error]
StrategySettle(f, out) ==
    [(IF out.state = "fulfilled"
      THEN IF AssignIds(out.value).ok
           THEN [f EXCEPT !.strategyResult = AssignIds(out.value).val]
           ELSE [f EXCEPT !.reported = ConceptsTypeError]
      ELSE [f EXCEPT !.reported = out.error])
     EXCEPT !.isStrategyLoading = FALSE, !.loadingMessage = ""]

\* handleGenerateImages up to the try block
ImagesStart(f) ==
    [f EXCEPT !.isImageLoading = TRUE, !.generatedImages = <<>>, !.reported = NoError]

\* the images of data.predictions; a body of shape "images" holds them in text
\* try { ...; setGeneratedImages(images) } catch (err) { onError(...) }
\* finally { setIsImageLoading(false) }
ImagesSettle(f, out, concept) ==
    [(IF out.state = "fulfilled"
      THEN IF out.value.shape = "null" THEN [f EXCEPT !.reported = PredictionsTypeError]
           ELSE IF out.value.shape = "images" /\ out.value.text # <<>>
                THEN [f EXCEPT !.generatedImages = out.value.text, !.imagesFor = concept]
           ELSE [f EXCEPT !.reported = NoImages]
      ELSE [f EXCEPT !.reported = out.error])
     EXCEPT !.isImageLoading = FALSE]

\* handleGenerateStrategy of the first version of the app, which has no
\* loading message: up to the try block
StrategyStartFirstVersion(f) ==
    [f EXCEPT !.isStrategyLoading = TRUE, !.strategyResult = Null,
              !.selectedConcept = Null, !.generatedImages = <<>>,
              !.reported = NoError]

NoContent ==
    [type |-> "Error", status |-> 0, detail |-> "No content returned from API.",
     attempt |-> 0]

\* ... and after its one fetchWithBackoff call settled:
\* try { if (jsonText) setStrategyResult(JSON.parse(jsonText)) else throw ... }
\* catch (err) { onError(...) } finally { setIsStrategyLoading(false) }
StrategySettleFirstVersion(f, out) ==
    [(IF out.state = "fulfilled"
      THEN IF out.value.shape = "null" THEN [f EXCEPT !.reported = NullBodyError(0)]
           ELSE IF ~Truthy(FirstText(out.value)) THEN [f EXCEPT !.reported = NoContent]
           ELSE IF JsonParse(FirstText(out.value).text).ok
                THEN [f EXCEPT !.strategyResult = JsonParse(FirstText(out.value).text).val]
           ELSE [f EXCEPT !.reported = JsonSyntaxError]
      ELSE [f EXCEPT !.reported = out.error])
     EXCEPT !.isStrategyLoading = FALSE]

\* the tab after a step of the call that a handler of the tab awaits
ForgeAfter(n) ==
    IF call.fn = "handleGenerateStrategy"
    THEN IF n.pc = "done" THEN StrategySettle(forge, n.result)
         ELSE IF n.pc = "phase2" THEN [forge EXCEPT !.loadingMessage = "Step 2/2"]
         ELSE forge
    ELSE IF call.fn = "handleGenerateImages" /\ n.pc = "done"
         THEN ImagesSettle(forge, n.result, call.concept)
    ELSE IF call.fn = "handleGenerateStrategyFirstVersion" /\ n.pc = "done"
         THEN StrategySettleFirstVersion(forge, n.result)
    ELSE forge

---------------------------------------------------------------------------
(* App *)

Tabs == {"welcome", "persona", "analyzer", "forge", "pricing", "about"}
Messages == {"m1", "m2"}
NoMessage == "null"
AutoDismiss == 5000     \* setTimeout(() => setError(null), 5000)
TickMs == 1000          \* the step of the clock
MaxReports == 3         \* handleError calls in a run

\* timers holds the time left of each pending setError(null) timer, oldest
\* first; shownFor, reports and cleared are history: the time since the last
\* handleError call, the number of calls, and how the message that
\* was cleared last by a timer had been on display
InitialApp ==
    [apiKey |-> "", activeTab |-> "welcome", error |-> NoMessage,
     showApiKeyModal |-> TRUE, timers |-> <<>>, shownFor |-> 0, reports |-> 0,
     cleared |-> [by |-> "none", message |-> NoMessage, shownFor |-> 0]]

Become(n) ==
    /\ tab' = TabAfter(n)
    /\ analyzer' = AnalyzerAfter(n)
    /\ forge' = ForgeAfter(n)
    /\ pc' = n.pc
    /\ stack' = n.stack
    /\ inflight' = n.inflight
    /\ groundedText' = n.groundedText
    /\ events' = n.events
    /\ result' = n.result
    /\ UNCHANGED <<call, other, app>>

---------------------------------------------------------------------------
(* Actions *)

\* an invocation that has not been called yet
IdleInvocation ==
    [pc |-> "idle", call |-> NoCall,
     stack |-> <<>>, inflight |-> 0, groundedText |-> Undefined, events |-> <<>>,
     result |-> [state |-> "none", value |-> NoValue, error |-> NoError],
     response |-> NoResponse]

Init ==
    /\ other = IdleInvocation
    /\ pc = "idle"
    /\ call = NoCall
    /\ stack = <<>>
    /\ inflight = 0
    /\ groundedText = Undefined
    /\ events = <<>>
    /\ result = [state |-> "none", value |-> NoValue, error |-> NoError]
    /\ response = NoResponse
    /\ tab = InitialTab
    /\ analyzer = InitialTab
    /\ forge = InitialForge
    /\ app = InitialApp

Top == Last(stack)
Attempt == Count(events, "req", PhaseOf(pc))
Awaiting == stack # <<>> /\ Top.pc = "awaitFetch" /\ inflight > 0

\* a direct call fetchWithBackoff(url, options, r, d)
CallFetchWithBackoff(r, d) ==
    /\ pc = "idle"
    /\ pc' = "fetch"
    /\ call' = TopCall("fetchWithBackoff", r, d)
    /\ stack' = <<NewFrame(r, d)>>
    /\ inflight' = 1
    /\ events' = <<Request(0, 1)>>
    /\ result' = Pending
    /\ response' = NoResponse
    /\ UNCHANGED <<groundedText, tab, other, analyzer, forge, app>>

\* fetchGroundedJson(apiKey, textPrompt, jsonSchema, setLoadingMessage) up to
\* the await of the first fetch
CallFetchGroundedJsonM ==
    /\ pc = "idle"
    /\ pc' = "phase1"
    /\ call' = TopCall("fetchGroundedJson", DefaultRetries, DefaultDelay)
    /\ stack' = <<NewFrame(DefaultRetries, DefaultDelay)>>
    /\ inflight' = 2
    /\ events' = <<Progress(1), Request(1, 1), Progress(2), Request(2, 1)>>
    /\ result' = Pending
    /\ response' = NoResponse
    /\ UNCHANGED <<groundedText, tab, other, analyzer, forge, app>>
CallFetchGroundedJson ==
    /\ pc = "idle"
    /\ pc' = "phase1"
    /\ call' = TopCall("fetchGroundedJson", DefaultRetries, DefaultDelay)
    /\ stack' = <<NewFrame(DefaultRetries, DefaultDelay)>>
    /\ inflight' = 1
    /\ events' = <<Progress(1), Request(1, 1)>>
    /\ result' = Pending
    /\ response' = NoResponse
    /\ UNCHANGED <<groundedText, tab, other, analyzer, forge, app>>

\* handleGenerate, the click handler of the Generate Personas button, which
\* is disabled while isLoading: up to the await of the first fetch, or up to
\* the early return when the API key is empty
HandleGenerate(apiKey) ==
    /\ pc = "idle" \/ (pc = "done" /\ call.fn = "handleGenerate")
    /\ ~tab.isLoading
    /\ call' = HandlerCall("handleGenerate", apiKey, Null)
    /\ groundedText' = Undefined
    /\ response' = NoResponse
    /\ UNCHANGED <<other, analyzer, forge, app>>
    /\ IF apiKey = ""
       THEN /\ tab' = [tab EXCEPT !.reported = NoApiKey]
            /\ pc' = "done"
            /\ stack' = <<>>
            /\ inflight' = 0
            /\ events' = <<>>
            /\ result' = [state |-> "none", value |-> NoValue, error |-> NoError]
       ELSE /\ tab' = HandlerStart(tab)
            /\ pc' = "phase1"
            /\ stack' = <<NewFrame(DefaultRetries, DefaultDelay)>>
            /\ inflight' = 1
            /\ events' = <<Progress(1), Request(1, 1)>>
            /\ result' = Pending

\* the request in flight is answered with a 2xx response
ResponseOk(body) ==
    /\ Awaiting
    /\ response' = OkResponse
    /\ Become(Resume(OnOk(Top, body, Attempt),
                     Append(events, Response(PhaseOf(pc), Attempt, body.shape, body.text))))

\* ... with a non-2xx response
ResponseNotOk(status, ebody) ==
    /\ Awaiting
    /\ response' = NotOkResponse(status, ebody, Top.retries)
    /\ Become(Resume(OnNotOk(Top, status, ebody, Attempt),
                     Append(events, Response(PhaseOf(pc), Attempt,
                         IF status = TooManyRequests THEN "429" ELSE "error", <<>>))))

\* ... or fetch() rejects
FetchThrows ==
    /\ Awaiting
    /\ response' = NoResponse
    /\ Become(Resume(OnFetchThrows(Top, Attempt),
                     Append(events, Response(PhaseOf(pc), Attempt, "throw", <<>>))))

\* the backoff timer fires: the frame calls itself and the new frame issues
\* the next request
TimerFires ==
    /\ stack # <<>>
    /\ Top.pc = "backoff"
    /\ stack' = Append(Append(Front(stack), [Top EXCEPT !.pc = "returned"]),
                       NewFrame(NextRetries(Top.retries), NextDelay(Top.delay)))
    /\ inflight' = inflight + 1
    /\ events' = events \o <<Wait(PhaseOf(pc), Top.delay),
                              Request(PhaseOf(pc), Attempt + 1)>>
    /\ response' = NoResponse
    /\ UNCHANGED <<pc, call, groundedText, result, tab, other, analyzer, forge, app>>

Next ==
    \/ \E r \in 0..MaxRetries, d \in DelayArgs : CallFetchWithBackoff(r, d)
    \/ CallFetchGroundedJson
    \/ \E apiKey \in ApiKeys : HandleGenerate(apiKey)
    \/ \E body \in OkBodies : ResponseOk(body)
    \/ \E status \in NotOkStatuses, ebody \in ErrorBodies : ResponseNotOk(status, ebody)
    \/ FetchThrows
    \/ TimerFires

Spec == Init /\ [][Next]_vars

(* Termination is checked on the same actions with fewer inputs: one body  *)
(* for each way the code treats a response.                                *)
LiveBodies ==
    { [shape |-> "unparseable", text |-> <<>>],
      [shape |-> "text", text |-> <<>>],
      [shape |-> "text", text |-> <<"{", "}">>] }

\* the network answers the request in flight
Respond ==
    \/ \E body \in LiveBodies : ResponseOk(body)
    \/ \E status \in NotOkStatuses : ResponseNotOk(status, "message")
    \/ FetchThrows

LiveNext ==
    \/ \E r \in 0..MaxRetries : CallFetchWithBackoff(r, DefaultDelay)
    \/ CallFetchGroundedJson
    \/ \E apiKey \in ApiKeys : HandleGenerate(apiKey)
    \/ Respond
    \/ TimerFires

\* every request issued is eventually answered or fails, and every timer set
\* by setTimeout eventually fires
FairSpec == Init /\ [][LiveNext]_vars /\ WF_vars(Respond) /\ WF_vars(TimerFires)

---------------------------------------------------------------------------
(* Two invocations *)

(* The event loop runs one continuation at a time.  The variables above are *)
(* the invocation whose continuation runs next; `other` is a second         *)
(* invocation that is waiting for its response or its timer.                *)
CurrentInvocation ==
    [pc |-> pc, call |-> call, stack |-> stack, inflight |-> inflight,
     groundedText |-> groundedText, events |-> events, result |-> result,
     response |-> response]

\* what an invocation finds when the event loop turns to it after `running`
\* ran: retries and delay are parameters of each call, held by its closure
ResumedM(inv, running) ==
    IF inv.stack # <<>> /\ running.stack # <<>>
    THEN [inv EXCEPT !.stack[Len(inv.stack)].retries = Last(running.stack).retries,
                     !.stack[Len(inv.stack)].delay = Last(running.stack).delay]
    ELSE inv
Resumed(inv, running) == inv

\* the event loop turns to the other invocation
Switch ==
    LET n == Resumed(other, CurrentInvocation)
    IN  /\ other' = CurrentInvocation
        /\ pc' = n.pc
        /\ call' = n.call
        /\ stack' = n.stack
        /\ inflight' = n.inflight
        /\ groundedText' = n.groundedText
        /\ events' = n.events
        /\ result' = n.result
        /\ response' = n.response
        /\ UNCHANGED <<tab, analyzer, forge, app>>

ConcRetries == {1, 2}
ConcBody == [shape |-> "text", text |-> <<"{", "}">>]

\* two direct calls, or a direct call and a retrieval, interleaved
ConcNext ==
    \/ \E r \in ConcRetries, d \in DelayArgs : CallFetchWithBackoff(r, d)
    \/ other.call.fn # "fetchGroundedJson" /\ CallFetchGroundedJson
    \/ ResponseOk(ConcBody)
    \/ ResponseNotOk(TooManyRequests, "message")
    \/ FetchThrows
    \/ TimerFires
    \/ Switch

ConcSpec == Init /\ [][ConcNext]_vars

---------------------------------------------------------------------------
(* The fetchWithBackoff of the first version of the app *)

\* new Error(`API Error: ${response.status} ${response.statusText}`)
ApiErrorFirstVersion(status, attempt) ==
    [type |-> "ApiError", status |-> status, detail |-> "statusText",
     attempt |-> attempt]

\* the continuation after `await fetch(url, options)` resolved with a non-2xx
\* response: the throw is inside the try block
OnNotOkFirstVersionM(f, status, attempt) ==
    IF IsThrottled(status, f.retries) THEN StepBackoff(f, NoError)
    ELSE StepSettle(f, Rejected(ApiErrorFirstVersion(status, attempt)))
OnNotOkFirstVersion(f, status, attempt) ==
    IF IsThrottled(status, f.retries) THEN StepBackoff(f, NoError)
    ELSE Catch(f, ApiErrorFirstVersion(status, attempt))

\* a direct call of the first version's fetchWithBackoff(url, options, r, d)
CallFirstVersion(r, d) ==
    /\ pc = "idle"
    /\ pc' = "fetch"
    /\ call' = TopCall("fetchWithBackoffFirstVersion", r, d)
    /\ stack' = <<NewFrame(r, d)>>
    /\ inflight' = 1
    /\ events' = <<Request(0, 1)>>
    /\ result' = Pending
    /\ response' = NoResponse
    /\ UNCHANGED <<groundedText, tab, other, analyzer, forge, app>>

\* the first version never reads the body of a non-2xx response
ResponseNotOkFirstVersion(status) ==
    /\ Awaiting
    /\ response' = NotOkResponse(status, "unread", Top.retries)
    /\ Become(Resume(OnNotOkFirstVersion(Top, status, Attempt),
                     Append(events, Response(PhaseOf(pc), Attempt,
                         IF status = TooManyRequests THEN "429" ELSE "error", <<>>))))

FirstVersion == call.fn = "fetchWithBackoffFirstVersion"
EquivRetries == 0..2
EquivErrorBodies == {"notjson", "message"}

(* The first version runs on some responses; then the current version is    *)
(* called with the same arguments and runs on responses of its own.         *)
EquivNext ==
    \/ \E r \in EquivRetries, d \in DelayArgs :
            other = IdleInvocation /\ CallFirstVersion(r, d)
    \/ FirstVersion /\ other = IdleInvocation /\ Switch
    \/ other.call.fn = "fetchWithBackoffFirstVersion"
            /\ CallFetchWithBackoff(other.call.retries, other.call.delay)
    \/ \E body \in LiveBodies : ResponseOk(body)
    \/ \E status \in NotOkStatuses : FirstVersion /\ ResponseNotOkFirstVersion(status)
    \/ \E status \in NotOkStatuses, ebody \in EquivErrorBodies :
            ~FirstVersion /\ ResponseNotOk(status, ebody)
    \/ FetchThrows
    \/ TimerFires

EquivSpec == Init /\ [][EquivNext]_vars

---------------------------------------------------------------------------
(* App: the error toast, the tabs and the API key *)

Invocations == <<pc, call, stack, inflight, groundedText, events, result, response,
                 other>>
TabStates == <<tab, analyzer, forge>>

\* setTimeout(() => setError(null), 5000)
SetTimerM(timers) == timers
SetTimer(timers) == Append(timers, AutoDismiss)

\* handleError(message), as the onError prop of a tab calls it
HandleError(message) ==
    /\ app.reports < MaxReports
    /\ app' = [app EXCEPT !.error = message, !.timers = SetTimer(@),
                          !.shownFor = 0, !.reports = @ + 1]
    /\ UNCHANGED <<Invocations, TabStates>>

\* the close button of ErrorToast, which is rendered while error is truthy
CloseToast ==
    /\ app.error # NoMessage
    /\ app' = [app EXCEPT !.error = NoMessage]
    /\ UNCHANGED <<Invocations, TabStates>>

\* a timer set by handleError is due: setError(null)
DismissTimerFires ==
    /\ app.timers # <<>>
    /\ Head(app.timers) = 0
    /\ app' = [app EXCEPT
                 !.error = NoMessage,
                 !.timers = Tail(@),
                 !.cleared = IF app.error = NoMessage THEN @
                             ELSE [by |-> "timer", message |-> app.error,
                                   shownFor |-> app.shownFor]]
    /\ UNCHANGED <<Invocations, TabStates>>

\* time passes, unless a timer is due
Tick ==
    /\ \A i \in 1..Len(app.timers) : app.timers[i] > 0
    /\ app' = [app EXCEPT
                 !.timers = [i \in 1..Len(@) |-> @[i] - TickMs],
                 !.shownFor = IF @ > AutoDismiss THEN @ ELSE @ + TickMs]
    /\ UNCHANGED <<Invocations, TabStates>>

\* useEffect(() => { if (!apiKey) setShowApiKeyModal(true) }, [apiKey]) after
\* handleSaveApiKey set showApiKeyModal to false: the effect runs only when
\* apiKey changed
ModalAfterSave(old, key) == old # key /\ key = ""

\* handleSaveApiKey(key), called by the WelcomeTab of the welcome tab or of
\* the modal
HandleSaveApiKey(key) ==
    /\ app.activeTab = "welcome" \/ app.showApiKeyModal
    /\ app' = [app EXCEPT
                 !.apiKey = key,
                 !.showApiKeyModal = ModalAfterSave(app.apiKey, key),
                 !.activeTab = IF @ = "welcome" THEN "persona" ELSE @]
    /\ UNCHANGED <<Invocations, TabStates>>

\* setActiveTab(t) by a click in AppHeader: renderTabContent unmounts the tab
\* that was shown and its state is lost
TabClick(t) ==
    /\ app' = [app EXCEPT !.activeTab = t]
    /\ IF t = app.activeTab
       THEN UNCHANGED TabStates
       ELSE /\ tab' = InitialTab
            /\ analyzer' = InitialTab
            /\ forge' = InitialForge
    /\ UNCHANGED Invocations

AppNext ==
    \/ \E message \in Messages : HandleError(message)
    \/ CloseToast
    \/ DismissTimerFires
    \/ Tick
    \/ \E key \in ApiKeys : HandleSaveApiKey(key)
    \/ \E t \in Tabs : TabClick(t)

AppSpec == Init /\ [][AppNext]_vars

\* time passes and due timers fire
FairAppSpec == AppSpec /\ WF_vars(Tick) /\ WF_vars(DismissTimerFires)

---------------------------------------------------------------------------
(* The handlers of the tabs *)

NotCalled == [state |-> "none", value |-> NoValue, error |-> NoError]

\* handleGenerateAnalysis, the click handler of the Generate Analysis button,
\* which is disabled while isLoading
HandleGenerateAnalysis(apiKey) ==
    /\ pc \in {"idle", "done"}
    /\ ~analyzer.isLoading
    /\ call' = HandlerCall("handleGenerateAnalysis", apiKey, Null)
    /\ groundedText' = Undefined
    /\ response' = NoResponse
    /\ UNCHANGED <<other, tab, forge, app>>
    /\ IF apiKey = ""
       THEN /\ analyzer' = [analyzer EXCEPT !.reported = NoApiKey]
            /\ pc' = "done"
            /\ stack' = <<>>
            /\ inflight' = 0
            /\ events' = <<>>
            /\ result' = NotCalled
       ELSE /\ analyzer' = HandlerStart(analyzer)
            /\ pc' = "phase1"
            /\ stack' = <<NewFrame(DefaultRetries, DefaultDelay)>>
            /\ inflight' = 1
            /\ events' = <<Progress(1), Request(1, 1)>>
            /\ result' = Pending

\* handleGenerateStrategy, the click handler of the Generate Strategy button,
\* which is disabled while isStrategyLoading
HandleGenerateStrategy(apiKey) ==
    /\ pc \in {"idle", "done"}
    /\ ~forge.isStrategyLoading
    /\ call' = HandlerCall("handleGenerateStrategy", apiKey, Null)
    /\ groundedText' = Undefined
    /\ response' = NoResponse
    /\ UNCHANGED <<other, tab, analyzer, app>>
    /\ IF apiKey = ""
       THEN /\ forge' = [forge EXCEPT !.reported = NoApiKey]
            /\ pc' = "done"
            /\ stack' = <<>>
            /\ inflight' = 0
            /\ events' = <<>>
            /\ result' = NotCalled
       ELSE /\ forge' = StrategyStart(forge)
            /\ pc' = "phase1"
            /\ stack' = <<NewFrame(DefaultRetries, DefaultDelay)>>
            /\ inflight' = 1
            /\ events' = <<Progress(1), Request(1, 1)>>
            /\ result' = Pending

\* if (!apiKey || !selectedConcept)
ImagesGuardM(apiKey, selectedConcept) == apiKey = ""
ImagesGuard(apiKey, selectedConcept) == apiKey = "" \/ selectedConcept = Null

\* handleGenerateImages, the click handler of the Generate Campaign Images
\* button, which is disabled while isImageLoading
HandleGenerateImages(apiKey) ==
    /\ pc \in {"idle", "done"}
    /\ ~forge.isImageLoading
    /\ call' = HandlerCall("handleGenerateImages", apiKey, forge.selectedConcept)
    /\ groundedText' = Undefined
    /\ response' = NoResponse
    /\ UNCHANGED <<other, tab, analyzer, app>>
    /\ IF ImagesGuard(apiKey, forge.selectedConcept)
       THEN /\ forge' = [forge EXCEPT !.reported = SelectConceptFirst]
            /\ pc' = "done"
            /\ stack' = <<>>
            /\ inflight' = 0
            /\ events' = <<>>
            /\ result' = NotCalled
       ELSE /\ forge' = ImagesStart(forge)
            /\ pc' = "fetch"
            /\ stack' = <<NewFrame(DefaultRetries, DefaultDelay)>>
            /\ inflight' = 1
            /\ events' = <<Request(0, 1)>>
            /\ result' = Pending

\* handleConceptClick(concept), the click handler of a button of the concept
\* list
HandleConceptClick(concept) ==
    /\ forge' = [forge EXCEPT !.selectedConcept = concept, !.generatedImages = <<>>]
    /\ UNCHANGED <<Invocations, tab, analyzer, app>>

\* the settled promise of a handler is dropped
Forget ==
    /\ pc = "done"
    /\ pc' = "idle"
    /\ call' = NoCall
    /\ stack' = <<>>
    /\ inflight' = 0
    /\ groundedText' = Undefined
    /\ events' = <<>>
    /\ result' = NotCalled
    /\ response' = NoResponse
    /\ UNCHANGED <<other, TabStates, app>>

\* handleGenerateStrategy of the first version: one request that asks for
\* search grounding and for JSON of the campaign schema
HandleGenerateStrategyFirstVersion(apiKey) ==
    /\ pc \in {"idle", "done"}
    /\ ~forge.isStrategyLoading
    /\ call' = HandlerCall("handleGenerateStrategyFirstVersion", apiKey, Null)
    /\ groundedText' = Undefined
    /\ response' = NoResponse
    /\ UNCHANGED <<other, tab, analyzer, app>>
    /\ IF apiKey = ""
       THEN /\ forge' = [forge EXCEPT !.reported = NoApiKey]
            /\ pc' = "done"
            /\ stack' = <<>>
            /\ inflight' = 0
            /\ events' = <<>>
            /\ result' = NotCalled
       ELSE /\ forge' = StrategyStartFirstVersion(forge)
            /\ pc' = "fetch"
            /\ stack' = <<NewFrame(DefaultRetries, DefaultDelay)>>
            /\ inflight' = 1
            /\ events' = <<Request(0, 1)>>
            /\ result' = Pending

UiTexts ==
    { <<>>,
      <<"{", "}">>,
      <<"{", "concepts", ":", "[", "{", "}", ",", "{", "id", ":", "0", "}", "]", "}">>,
      <<"{", "concepts", ":", "[", "{", "id", ":", "2", "}", ",", "{", "}", "]", "}">> }
UiBodies ==
    { [shape |-> "text", text |-> t] : t \in UiTexts }
    \cup { [shape |-> "images", text |-> <<"png">>] }

Running(inv) == inv.pc \notin {"idle", "done"}

(* The app as its user drives it: tabs are switched between requests, and  *)
(* each tab's handlers get the apiKey prop of App.                         *)
UiNext ==
    \/ \E key \in ApiKeys : HandleSaveApiKey(key)
    \/ \E t \in Tabs : ~Running(CurrentInvocation) /\ ~Running(other) /\ TabClick(t)
    \/ app.activeTab = "persona" /\ HandleGenerate(app.apiKey)
    \/ app.activeTab = "analyzer" /\ HandleGenerateAnalysis(app.apiKey)
    \/ app.activeTab = "forge" /\ HandleGenerateStrategy(app.apiKey)
    \/ app.activeTab = "forge" /\ HandleGenerateImages(app.apiKey)
    \/ \E concept \in Concepts(forge.strategyResult) : HandleConceptClick(concept)
    \/ \E body \in UiBodies : ResponseOk(body)
    \/ ResponseNotOk(TooManyRequests, "message")
    \/ TimerFires
    \/ Forget
    \/ pc # "done" /\ Switch

UiSpec == Init /\ [][UiNext]_vars

\* the campaign tab of the first version of the app
FirstVersionNext ==
    \/ \E apiKey \in ApiKeys : HandleGenerateStrategyFirstVersion(apiKey)
    \/ \E body \in UiBodies : ResponseOk(body)
    \/ \E status \in NotOkStatuses : ResponseNotOkFirstVersion(status)
    \/ FetchThrows
    \/ TimerFires

FirstVersionSpec == Init /\ [][FirstVersionNext]_vars

---------------------------------------------------------------------------
(* Reading the history *)

Phases == {0, 1, 2}
OkShapes == {"unparseable", "null", "nocandidates", "notext", "text"}
TransientKinds == {"429", "throw"}

IsReq(ev, p) == ev.e = "req" /\ ev.phase = p
IsWait(ev, p) == ev.e = "wait" /\ ev.phase = p
IsResp(ev, p) == ev.e = "resp" /\ ev.phase = p
Is2xx(ev, p) == IsResp(ev, p) /\ ev.kind \in OkShapes
\* a 2xx response whose first candidate's first text part is a non-empty string
HasText(ev, p) == IsResp(ev, p) /\ ev.kind = "text" /\ ev.text # <<>>
\* a 2xx response of a parsed, non-null body whose first text part is absent
TextAbsent(ev, p) == IsResp(ev, p) /\ ev.kind \in {"nocandidates", "notext"}
TextEmpty(ev, p) == IsResp(ev, p) /\ ev.kind = "text" /\ ev.text = <<>>

\* the requests, responses and waits of one fetchWithBackoff call, in order
PhaseEvents(p) == SelectSeq(events, LAMBDA ev : ev.phase = p /\ ev.e # "progress")
Responses(p) == SelectSeq(events, LAMBDA ev : IsResp(ev, p))
Waits(p) == SelectSeq(events, LAMBDA ev : IsWait(ev, p))
Requests(p) == Count(events, "req", p)

\* the arguments the top-level fetchWithBackoff call of a phase was given
RetriesArg(p) == IF p = 0 THEN call.retries ELSE DefaultRetries
DelayArg(p) == IF p = 0 THEN call.delay ELSE DefaultDelay

RECURSIVE Pow2(_)
Pow2(k) == IF k = 0 THEN 1 ELSE 2 * Pow2(k - 1)

IsPrefix(s, t) == Len(s) <= Len(t) /\ s = SubSeq(t, 1, Len(s))

Settled == result.state \in {"fulfilled", "rejected"}
Quiescent == pc = "done" /\ stack = <<>> /\ inflight = 0

\* The history of a phase in which the attempts 1..Len(kinds) failed with the
\* given kinds and every failure that found retries left was followed by a
\* wait of d, 2d, 4d, ... and the next request.
RECURSIVE BackoffTail(_, _, _, _, _)
BackoffTail(p, kinds, r, d, i) ==
    IF i > Len(kinds) THEN <<>>
    ELSE <<Response(p, i, kinds[i], <<>>)>>
         \o (IF i <= r THEN <<Wait(p, d * Pow2(i - 1)), Request(p, i + 1)>> ELSE <<>>)
         \o BackoffTail(p, kinds, r, d, i + 1)

BackoffHistory(p, kinds, r, d) == <<Request(p, 1)>> \o BackoffTail(p, kinds, r, d, 1)

Kinds(p) == [i \in 1..Len(Responses(p)) |-> Responses(p)[i].kind]
AllKindsIn(p, K) == \A i \in 1..Len(Responses(p)) : Responses(p)[i].kind \in K

\* the history of phase p is the backoff history of its failures, the last
\* wait and request possibly still to come
FollowsBackoff(p) ==
    LET h == BackoffHistory(p, Kinds(p), RetriesArg(p), DelayArg(p))
        e == PhaseEvents(p)
    IN  /\ IsPrefix(e, h)
        /\ Len(e) \in {Len(h), Len(h) - 2}
        /\ Len(e) = Len(h) - 2 => (stack # <<>> /\ Last(stack).pc = "backoff")

---------------------------------------------------------------------------
(* C1: fetchWithBackoff(url, options, r, d) whose every response is HTTP   *)
(* 429 issues exactly r+1 requests and waits exactly r times, once between *)
(* consecutive requests, for d, 2d, 4d, ..., 2^(r-1)*d in that order; after *)
(* the (r+1)-th 429 the call fails with an error carrying status 429 and   *)
(* neither requests nor waits again.                                       *)
C1_AllThrottled ==
    (call.fn = "fetchWithBackoff" /\ AllKindsIn(0, {"429"})) =>
        /\ FollowsBackoff(0)
        /\ Requests(0) <= call.retries + 1
        /\ Len(Waits(0)) <= call.retries
        /\ \A k \in 1..Len(Waits(0)) : Waits(0)[k].n = call.delay * Pow2(k - 1)
        /\ result.state # "fulfilled"
        /\ (Len(Responses(0)) = call.retries + 1) <=> (result.state = "rejected")
        /\ result.state = "rejected" =>
              /\ Requests(0) = call.retries + 1
              /\ Len(Waits(0)) = call.retries
              /\ result.error.type = "ApiError"
              /\ result.error.status = TooManyRequests
              /\ Quiescent

C1_Witness ==
    /\ call.fn = "fetchWithBackoff"
    /\ call.retries = 3
    /\ AllKindsIn(0, {"429"})
    /\ result.state = "rejected"
    /\ Len(Waits(0)) = 3
    /\ Waits(0)[3].n = 4 * call.delay

(* C2: a non-2xx response whose status is not 429 ends the fetchWithBackoff *)
(* call for every value of retries: the call fails after that response,    *)
(* with no backoff wait and no further request.                            *)
C2_NonThrottledErrorIsTerminal ==
    \A i \in 1..Len(events) :
        (events[i].e = "resp" /\ events[i].kind = "error") =>
            /\ i = Len(events)
            /\ result.state = "rejected"
            /\ Quiescent

C2_Witness ==
    /\ \E i \in 1..Len(events) : events[i].e = "resp" /\ events[i].kind = "error"
    /\ Settled

\* the positions of the history that hold an event satisfying a test
Positions(Test(_)) == {i \in 1..Len(events) : Test(events[i])}
Grounded == call.fn = "fetchGroundedJson"

(* C3: fetchGroundedJson issues a phase-2 request only after a phase-1     *)
(* request returned a 2xx response whose first candidate's first text part *)
(* is non-empty, and returns a structured object only after both phases    *)
(* succeeded in that order; phase 1 is never skipped.                      *)
C3_Phase2OnlyAfterGroundedText ==
    Grounded =>
        /\ \A i \in Positions(LAMBDA ev : IsReq(ev, 2)) :
              \E j \in 1..(i - 1) :
                  /\ HasText(events[j], 1)
                  /\ groundedText = Text(events[j].text)
                  /\ \A k \in 1..Len(events) :
                        events[k].phase = 1 /\ events[k].e # "progress" => k <= j
        /\ result.state = "fulfilled" =>
              \E j, k \in 1..Len(events) :
                  /\ j < k
                  /\ HasText(events[j], 1)
                  /\ HasText(events[k], 2)
                  /\ k = Len(events)
                  /\ \E i \in 1..(j - 1) : IsReq(events[i], 1)
                  /\ \E i \in (j + 1)..(k - 1) : IsReq(events[i], 2)

C3_Witness ==
    /\ Grounded
    /\ result.state = "fulfilled"
    /\ Requests(1) >= 2
    /\ Requests(2) >= 2

(* C4: when the phase-1 2xx response has no candidates or an absent or     *)
(* empty first text part, fetchGroundedJson fails with an error whose      *)
(* message begins with 'Step 1 Failed', never issues a phase-2 request and *)
(* issues no further phase-1 request after that response.                  *)
C4_Step1FailedIsTerminal ==
    Grounded =>
        \A i \in Positions(LAMBDA ev : TextAbsent(ev, 1) \/ TextEmpty(ev, 1)) :
            /\ i = Len(events)
            /\ result = Rejected(Step1Failed)
            /\ Requests(2) = 0
            /\ Requests(1) = events[i].n
            /\ Quiescent

C4_Witness ==
    /\ Grounded
    /\ \E i \in 1..Len(events) : TextEmpty(events[i], 1)
    /\ Requests(1) >= 2
    /\ result.state = "rejected"

(* C5: when fetch itself throws and retries > 0, fetchWithBackoff waits    *)
(* the current delay and re-attempts with retries-1 and delay*2, as in the *)
(* 429 case; for every interleaving of 429 responses and transport         *)
(* failures each failed attempt consumes exactly one retry and doubles the *)
(* delay exactly once.                                                     *)
C5_TransientFailuresBackOff ==
    \A p \in Phases :
        (Requests(p) > 0 /\ AllKindsIn(p, TransientKinds)) =>
            /\ FollowsBackoff(p)
            /\ (p = PhaseOf(pc) /\ stack # <<>>) =>
                  LET k == Len(Waits(p)) IN
                  /\ Last(stack).retries = RetriesArg(p) - k
                  /\ Last(stack).delay = DelayArg(p) * Pow2(k)
                  /\ Last(stack).pc = "backoff" =>
                        /\ Len(Responses(p)) = k + 1
                        /\ Last(stack).retries > 0
                  /\ Last(stack).pc = "awaitFetch" => Len(Responses(p)) = k
            /\ (Len(Responses(p)) = RetriesArg(p) + 1) <=>
                  (result.state = "rejected" /\ Last(events).phase = p)

C5_Witness ==
    /\ call.fn = "fetchWithBackoff"
    /\ Len(Responses(0)) = 3
    /\ Kinds(0) = <<"throw", "429", "throw">>
    /\ Len(Waits(0)) = 3
    /\ stack # <<>>
    /\ Last(stack).pc = "awaitFetch"

(* C6: when phase 1 of fetchGroundedJson receives k HTTP 429 responses     *)
(* (1 <= k <= 3) followed by a 2xx response with non-empty text and phase  *)
(* 2 then receives a 2xx response with valid JSON text, the retrieval      *)
(* succeeds with exactly k+1 phase-1 requests and exactly 1 phase-2        *)
(* request.                                                                *)
ThrottledThenText(p, k) ==
    /\ Len(Responses(p)) = k + 1
    /\ \A i \in 1..k : Responses(p)[i].kind = "429"
    /\ HasText(Responses(p)[k + 1], p)

\* phase p has received k responses so far, all of them 429
ThrottledSoFar(p, k) == Len(Responses(p)) = k /\ AllKindsIn(p, {"429"})

C6_ThrottledThenSuccess ==
    \A k \in 1..DefaultRetries :
      /\ (Grounded /\ ThrottledSoFar(1, k)) =>
            /\ result.state = "pending"
            /\ pc = "phase1"
            /\ Requests(1) \in {k, k + 1}
            /\ Requests(1) = k => Last(stack).pc = "backoff"
      /\ (Grounded /\ ThrottledThenText(1, k)) =>
            /\ Requests(1) = k + 1
            /\ pc \in {"phase2", "done"}
            /\ (ThrottledThenText(2, 0) /\ JsonParse(Responses(2)[1].text).ok) =>
                  /\ result.state = "fulfilled"
                  /\ Requests(1) = k + 1
                  /\ Requests(2) = 1
                  /\ Quiescent

C6_Witness ==
    /\ Grounded
    /\ ThrottledThenText(1, 3)
    /\ ThrottledThenText(2, 0)
    /\ result.state = "fulfilled"

(* C7: fetchWithBackoff called with retries = 0 issues exactly one request *)
(* and never waits, whatever the outcome of the request: 2xx, 429, another *)
(* non-2xx status or a transport failure.                                  *)
C7_ZeroRetriesOneAttempt ==
    (call.fn = "fetchWithBackoff" /\ call.retries = 0) =>
        /\ Requests(0) = 1
        /\ Waits(0) = <<>>
        /\ \A f \in 1..Len(stack) : stack[f].pc # "backoff"
        /\ Len(Responses(0)) <= 1
        /\ Len(Responses(0)) = 1 => (Settled /\ Quiescent /\ Len(events) = 2)

C7_Witness ==
    /\ call.fn = "fetchWithBackoff"
    /\ call.retries = 0
    /\ Len(Responses(0)) = 1
    /\ Responses(0)[1].kind = "throw"
    /\ result.state = "rejected"

(* C8: when fetchWithBackoff fails after its retries are exhausted, the    *)
(* error that reaches the caller is the error of the last attempt; the     *)
(* errors of earlier attempts are discarded.                               *)
C8_LastErrorPropagates ==
    (result.state = "rejected"
       /\ result.error.type \in {"ApiError", "TransportError"}) =>
        LET p == Last(events).phase
            last == Last(events)
        IN  /\ last.e = "resp"
            /\ last.n = Requests(p)
            /\ Requests(p) = RetriesArg(p) + 1
            /\ result.error.attempt = Requests(p)
            /\ (result.error.type = "TransportError") <=> (last.kind = "throw")
            /\ (result.error.type = "ApiError") <=> (last.kind \in {"429", "error"})
            /\ (result.error.status = TooManyRequests) <=> (last.kind = "429")

C8_Witness ==
    /\ call.fn = "fetchWithBackoff"
    /\ result.state = "rejected"
    /\ result.error.type = "TransportError"
    /\ Len(Responses(0)) = 4
    /\ Responses(0)[1].kind = "error"
    /\ Responses(0)[3].kind = "429"

(* C9: once fetchWithBackoff receives a 2xx response it neither requests   *)
(* nor waits again; it returns the parsed JSON body of that response, and  *)
(* when the body cannot be parsed the call fails without a retry even when *)
(* retries remain.                                                         *)
C9_OkResponseEndsTheCall ==
    \A p \in Phases :
        \A i \in Positions(LAMBDA ev : Is2xx(ev, p)) :
            /\ \A j \in (i + 1)..Len(events) :
                  ~(events[j].phase = p /\ events[j].e \in {"req", "wait", "resp"})
            /\ \A f \in 1..Len(stack) : p = PhaseOf(pc) => stack[f].pc # "backoff"
            /\ events[i].kind = "unparseable" =>
                  /\ i = Len(events)
                  /\ result = Rejected(BodySyntaxError(events[i].n))
                  /\ Quiescent
            /\ (events[i].kind # "unparseable" /\ p = 0) =>
                  /\ i = Len(events)
                  /\ result = Fulfilled([shape |-> events[i].kind,
                                         text |-> events[i].text])
                  /\ Quiescent

C9_Witness ==
    /\ call.fn = "fetchWithBackoff"
    /\ call.retries = 3
    /\ Requests(0) = 2
    /\ Last(events).kind = "unparseable"
    /\ result.state = "rejected"

(* C10 as stated: after a successful phase 1, a phase-2 response whose     *)
(* first text part is absent fails with 'Step 2 Failed', and one whose     *)
(* text is present but is not valid JSON fails with a JSON-parse error;    *)
(* no further request is issued in either case.                            *)
C10_PresentInvalidTextIsParseError ==
    Grounded =>
        \A i \in Positions(LAMBDA ev : Is2xx(ev, 2)) :
            /\ TextAbsent(events[i], 2) =>
                  (result = Rejected(Step2Failed) /\ i = Len(events) /\ Quiescent)
            /\ (events[i].kind = "text" /\ ~JsonParse(events[i].text).ok) =>
                  (result = Rejected(JsonSyntaxError) /\ i = Len(events) /\ Quiescent)

(* C10 amended: after a successful phase 1, a phase-2 response whose first *)
(* text part is absent or is the empty string fails with 'Step 2 Failed',  *)
(* and one whose text is non-empty but is not valid JSON fails with a      *)
(* JSON-parse error; no further request is issued in either case.          *)
C10_Phase2Classification ==
    Grounded =>
        \A i \in Positions(LAMBDA ev : Is2xx(ev, 2)) :
            /\ (TextAbsent(events[i], 2) \/ TextEmpty(events[i], 2)) =>
                  (result = Rejected(Step2Failed) /\ i = Len(events) /\ Quiescent)
            /\ (HasText(events[i], 2) /\ ~JsonParse(events[i].text).ok) =>
                  (result = Rejected(JsonSyntaxError) /\ i = Len(events) /\ Quiescent)

C10_Witness ==
    /\ Grounded
    /\ TextEmpty(Last(events), 2)
    /\ result = Rejected(Step2Failed)
    /\ \E i \in 1..Len(events) : HasText(events[i], 1)

---------------------------------------------------------------------------
\* the JSON text of a value, without white space
RECURSIVE Stringify(_), StringifyElements(_), StringifyMembers(_)
Stringify(val) ==
    IF val.t = "obj" THEN <<"{">> \o StringifyMembers(val.v) \o <<"}">>
    ELSE IF val.t = "arr" THEN <<"[">> \o StringifyElements(val.v) \o <<"]">>
    ELSE IF val.t = "num" THEN val.v
    ELSE <<"?">>

StringifyElements(vs) ==
    IF vs = <<>> THEN <<>>
    ELSE IF Len(vs) = 1 THEN Stringify(vs[1])
    ELSE Stringify(vs[1]) \o <<",">> \o StringifyElements(Tail(vs))

StringifyMembers(ms) ==
    IF ms = <<>> THEN <<>>
    ELSE IF Len(ms) = 1 THEN <<ms[1].k, ":">> \o Stringify(ms[1].val)
    ELSE <<ms[1].k, ":">> \o Stringify(ms[1].val) \o <<",">> \o StringifyMembers(Tail(ms))

(* C11: round trip.  For every well-formed JSON text T that is the first   *)
(* text part of the phase-2 response after a successful phase 1,           *)
(* fetchGroundedJson returns the value parse(T), unmodified: the value is  *)
(* the one whose JSON text is T.                                           *)
C11_RoundTrip ==
    (pc = "done" /\ call.fn \in {"fetchGroundedJson", "handleGenerate"}
       /\ events # <<>> /\ HasText(Last(events), 2)
       /\ JsonParse(Last(events).text).ok) =>
        /\ result.state = "fulfilled"
        /\ result.value.t \in {"obj", "arr", "num"}
        /\ result.value = JsonParse(Last(events).text).val
        /\ Stringify(result.value) = Last(events).text

C11_Witness ==
    /\ Grounded
    /\ result.state = "fulfilled"
    /\ Len(Last(events).text) = 7
    /\ Len(result.value.v) = 2
    /\ result.value.v[2] = [t |-> "arr", v |-> <<>>]

(* C12: a non-2xx response that fetchWithBackoff surfaces as an error      *)
(* gives an error message that carries the HTTP status code, with the      *)
(* body's nested error.message as detail when the body is JSON holding a   *)
(* non-empty error.message and the transport status text otherwise; a body *)
(* that is not JSON never causes another failure.                          *)
C12_ErrorMessage ==
    (pc = "done" /\ response.status \in NotOkStatuses) =>
        /\ result.state = "rejected"
        /\ result.error.type = "ApiError"
        /\ result.error.status = response.status
        /\ response.ebody \in ErrorBodies
        /\ response.ebody = "message" => result.error.detail = "bodyMessage"
        /\ response.ebody \in {"notjson", "nomessage", "emptymessage"} =>
              result.error.detail = "statusText"

C12_Witness ==
    /\ pc = "done"
    /\ response = [status |-> 500, ebody |-> "notjson"]
    /\ result.error.type = "ApiError"
    /\ result.error.detail = "statusText"
    /\ Requests(2) = 4

(* C13: a failure in either phase of fetchGroundedJson aborts the whole    *)
(* retrieval: the call returns no object (neither the phase-1 text nor a   *)
(* partial structure), nothing is resumed, and in handleGenerate the       *)
(* result state that was cleared to null when the request started is still *)
(* null after the failure.                                                 *)
C13_FailureAborts ==
    (call.fn \in {"fetchGroundedJson", "handleGenerate"}
       /\ result.state = "rejected") =>
        /\ result.value = NoValue
        /\ Quiescent
        /\ ~ENABLED TimerFires
        /\ call.fn = "handleGenerate" =>
              /\ tab.result = Null
              /\ tab.reported = result.error
              /\ ~tab.isLoading

C13_Witness ==
    /\ call.fn = "handleGenerate"
    /\ result = Rejected(JsonSyntaxError)
    /\ Truthy(groundedText)
    /\ tab.result = Null
    /\ tab.reported = JsonSyntaxError

\* requests issued and not yet answered among the first n events
RECURSIVE Outstanding(_)
Outstanding(n) ==
    IF n = 0 THEN 0
    ELSE Outstanding(n - 1)
         + (IF events[n].e = "req" THEN 1 ELSE IF events[n].e = "resp" THEN -1 ELSE 0)

Retrieval == call.fn \in {"fetchGroundedJson", "handleGenerate"}

(* C14: within one fetchGroundedJson invocation at most one network        *)
(* request is in flight at any time, and the first phase-2 request is      *)
(* issued only after every phase-1 request and every phase-1 backoff wait  *)
(* has completed: the two phases never overlap.                            *)
C14_SequentialPhases ==
    Retrieval =>
        /\ inflight \in {0, 1}
        /\ inflight = Outstanding(Len(events))
        /\ \A n \in 0..Len(events) : Outstanding(n) \in {0, 1}
        /\ inflight = 1 => \A f \in 1..Len(stack) : stack[f].pc # "backoff"
        /\ \A i \in Positions(LAMBDA ev : IsReq(ev, 2)) :
              /\ Outstanding(i - 1) = 0
              /\ \A j \in 1..Len(events) :
                    (events[j].phase = 1 /\ events[j].e # "progress") => j < i
              /\ Len(Waits(1)) = Requests(1) - 1

C14_Witness ==
    /\ Retrieval
    /\ pc = "phase2"
    /\ inflight = 1
    /\ Requests(1) = 3
    /\ Len(Waits(1)) = 2
    /\ Requests(2) = 2

(* C16: progress ordering in fetchGroundedJson.  'Step 1/2' is delivered   *)
(* before the first phase-1 request; 'Step 2/2' after phase 1 yielded      *)
(* non-empty text and before the first phase-2 request; each is delivered  *)
(* exactly once per invocation however many retries occur, and 'Step 2/2'  *)
(* is never delivered when phase 1 fails.                                  *)
ProgressAt(step) == Positions(LAMBDA ev : ev.e = "progress" /\ ev.n = step)

C16_ProgressOrdering ==
    (Retrieval /\ events # <<>>) =>
        /\ ProgressAt(1) = {1}
        /\ \A i \in Positions(LAMBDA ev : IsReq(ev, 1)) : i > 1
        /\ Cardinality(ProgressAt(2)) <= 1
        /\ \A i \in ProgressAt(2) :
              /\ HasText(events[i - 1], 1)
              /\ i < Len(events)
              /\ events[i + 1] = Request(2, 1)
        /\ \A i \in Positions(LAMBDA ev : IsReq(ev, 2)) : \E j \in ProgressAt(2) : j < i
        /\ (\E i \in 1..Len(events) : HasText(events[i], 1)) <=> (ProgressAt(2) # {})
        /\ \A i \in 1..Len(events) : events[i].e = "progress" => events[i].n \in {1, 2}
        /\ call.fn = "handleGenerate" /\ tab.isLoading =>
              tab.loadingMessage = (IF ProgressAt(2) # {} THEN "Step 2/2" ELSE "Step 1/2")

C16_Witness ==
    /\ Retrieval
    /\ Requests(1) = 3
    /\ Requests(2) = 3
    /\ Cardinality(ProgressAt(1)) = 1
    /\ Cardinality(ProgressAt(2)) = 1

(* C18: retry state is created fresh for each top-level fetch.  The        *)
(* phase-2 fetch of fetchGroundedJson starts with the full default budget  *)
(* (3 retries, 1000 ms) whatever phase 1 consumed, and once phase 2 has    *)
(* started no phase-1 request is issued again in that invocation.          *)
C18_FreshRetryState ==
    (Retrieval /\ Requests(2) > 0) =>
        /\ Last(events) = Request(2, 1) =>
              stack = <<NewFrame(DefaultRetries, DefaultDelay)>>
        /\ pc = "phase2" =>
              /\ stack[1].retries = DefaultRetries
              /\ stack[1].delay = DefaultDelay
              /\ Last(stack).retries = DefaultRetries - Len(Waits(2))
              /\ Last(stack).delay = DefaultDelay * Pow2(Len(Waits(2)))
        /\ \A k \in 1..Len(Waits(2)) : Waits(2)[k].n = DefaultDelay * Pow2(k - 1)
        /\ Requests(2) <= DefaultRetries + 1
        /\ \A i, j \in 1..Len(events) :
              (IsReq(events[i], 1) /\ events[j].phase = 2) => i < j

C18_Witness ==
    /\ Retrieval
    /\ pc = "phase2"
    /\ Len(Waits(1)) = 3
    /\ Len(Waits(2)) = 2
    /\ Waits(2)[1].n = DefaultDelay
    /\ Last(stack).retries = 1

(* C19: retry state of fetchWithBackoff started with retries r >= 0 and    *)
(* delay d > 0.  In every reachable state the remaining-retry counter is   *)
(* an integer in 0..r; after k re-attempts it is r-k and the current delay *)
(* is d*2^k (strict doubling, no cap, no jitter); it is never negative.    *)
C19_RetryState ==
    stack # <<>> =>
        LET p == PhaseOf(pc)
            r == RetriesArg(p)
            d == DelayArg(p)
        IN  /\ Len(stack) = Len(Waits(p)) + 1
            /\ Len(stack) <= r + 1
            /\ \A k \in 0..(Len(stack) - 1) :
                  /\ stack[k + 1].retries = r - k
                  /\ stack[k + 1].retries \in 0..r
                  /\ stack[k + 1].delay = d * Pow2(k)
                  /\ k < Len(stack) - 1 => stack[k + 1].pc = "returned"

C19_Witness ==
    /\ call.fn = "fetchWithBackoff"
    /\ call.retries = 3
    /\ Len(stack) = 4
    /\ Last(stack).retries = 0
    /\ Last(stack).delay = 8 * call.delay

(* C17: every invocation eventually completes or fails, provided every    *)
(* issued request is eventually answered or throws and every backoff timer *)
(* eventually fires.  fetchWithBackoff with retry budget r issues at most  *)
(* r+1 requests in all (no enclosing attempt retries a failed retry), so a *)
(* retrieval with the default budget issues at most 8 requests, 4 per      *)
(* phase, before it returns or fails.                                      *)
RequestBudget ==
    /\ \A p \in Phases : Requests(p) <= RetriesArg(p) + 1
    /\ Retrieval => Requests(1) + Requests(2) <= 2 * (DefaultRetries + 1)

C17_Terminates ==
    (result.state = "pending") ~> (Settled /\ Quiescent /\ RequestBudget)

C17_Witness ==
    /\ Retrieval
    /\ Settled
    /\ Requests(1) = 4
    /\ Requests(2) = 4

---------------------------------------------------------------------------
(* C15 *)

\* the retry state an invocation must be in, read off its own history alone
OwnWaits(inv) == SelectSeq(inv.events, LAMBDA ev : IsWait(ev, PhaseOf(inv.pc)))
OwnFailures(inv) ==
    Cardinality({i \in 1..Len(inv.events) :
        /\ IsResp(inv.events[i], PhaseOf(inv.pc))
        /\ inv.events[i].kind \in TransientKinds})
OwnRetries(inv) ==
    IF inv.call.fn = "fetchGroundedJson" THEN DefaultRetries ELSE inv.call.retries
OwnDelay(inv) ==
    IF inv.call.fn = "fetchGroundedJson" THEN DefaultDelay ELSE inv.call.delay

OwnsRetryState(inv) ==
    inv.pc \in {"fetch", "phase1", "phase2"} =>
        LET w == Len(OwnWaits(inv))
            f == Last(inv.stack)
        IN  /\ inv.stack # <<>>
            /\ f.retries = OwnRetries(inv) - w
            /\ f.delay = OwnDelay(inv) * Pow2(w)
            /\ \A i \in 1..w : OwnWaits(inv)[i].n = OwnDelay(inv) * Pow2(i - 1)
            /\ Count(inv.events, "req", PhaseOf(inv.pc)) = w + 1
            /\ OwnFailures(inv) = (IF f.pc = "backoff" THEN w + 1 ELSE w)

\* C15: of two interleaved invocations each one's remaining retries and delay,
\* its number of requests and its waits are determined by the responses to
\* its own requests: r minus its own failed attempts, d doubled once for each.
C15_OwnRetryState == OwnsRetryState(CurrentInvocation) /\ OwnsRetryState(other)

C15_Witness ==
    /\ call.fn = "fetchGroundedJson" /\ pc = "phase2"
    /\ other.call.fn = "fetchWithBackoff" /\ other.pc = "fetch"
    /\ other.call.delay # DefaultDelay
    /\ Len(OwnWaits(CurrentInvocation)) = 2
    /\ Len(OwnWaits(other)) = 1
    /\ Last(other.stack).pc = "backoff"

---------------------------------------------------------------------------
(* C20 *)

\* an invocation is at rest when it waits for a response or has settled
AtRest(inv) ==
    /\ inv.pc \in {"fetch", "done"}
    /\ inv.stack # <<>> => Last(inv.stack).pc = "awaitFetch"
ResponsesOf(inv) == SelectSeq(inv.events, LAMBDA ev : ev.e = "resp")
Protocol(frames) ==
    [k \in 1..Len(frames) |->
        [retries |-> frames[k].retries, delay |-> frames[k].delay, pc |-> frames[k].pc]]
SameButMessage(e1, e2) ==
    /\ e1.type = e2.type
    /\ e1.status = e2.status
    /\ e1.attempt = e2.attempt

\* the current version (running) and the first version (other) were called
\* with the same arguments and have received the same responses
SameInputs ==
    /\ call.fn = "fetchWithBackoff"
    /\ other.call.fn = "fetchWithBackoffFirstVersion"
    /\ call.retries = other.call.retries
    /\ call.delay = other.call.delay
    /\ ResponsesOf(CurrentInvocation) = ResponsesOf(other)
    /\ AtRest(CurrentInvocation)
    /\ AtRest(other)

\* C20: on the same arguments and the same responses the first version's
\* fetchWithBackoff and the current one issue the same requests, perform the
\* same waits and agree on success or failure and on the value; only the
\* message of the error may differ.
C20_SameProtocol ==
    SameInputs =>
        /\ events = other.events
        /\ Protocol(stack) = Protocol(other.stack)
        /\ pc = other.pc
        /\ result.state = other.result.state
        /\ result.value = other.result.value
        /\ SameButMessage(result.error, other.result.error)

C20_Witness ==
    /\ SameInputs
    /\ result.state = "rejected"
    /\ result.error.detail = "bodyMessage"
    /\ other.result.error.detail = "statusText"
    /\ Requests(0) = 3
    /\ Len(Waits(0)) = 2

---------------------------------------------------------------------------
(* C22 *)

\* C22: a reported error is dismissed: while a message is shown at most 5000
\* ms have passed since the last handleError call, and once no further error
\* is reported the error state is null for good.
C22_ErrorDismissed ==
    /\ [](app.error # NoMessage => app.shownFor <= AutoDismiss)
    /\ <>[](app.error = NoMessage)

C22_Witness ==
    /\ app.reports = 2
    /\ app.error = NoMessage
    /\ app.timers = <<>>
    /\ app.cleared.by = "timer"
    /\ app.cleared.shownFor = AutoDismiss

---------------------------------------------------------------------------
(* C23 *)

\* C23: a message that a timer clears has been on display for the full 5000
\* ms since the handleError call that set it.
C23_ShownInFull ==
    app.cleared.by = "timer" => app.cleared.shownFor >= AutoDismiss

C23_Witness ==
    /\ app.cleared.by = "timer"
    /\ app.cleared.shownFor < AutoDismiss
    /\ app.reports = 2

---------------------------------------------------------------------------
(* C27 *)

\* C27: whenever apiKey is empty and the active tab is not the welcome tab,
\* the API-key modal is open.
C27_EmptyKeyPrompts ==
    (app.apiKey = "" /\ app.activeTab # "welcome") => app.showApiKeyModal

C27_Witness ==
    /\ app.apiKey = ""
    /\ app.activeTab = "persona"
    /\ ~app.showApiKeyModal

---------------------------------------------------------------------------
(* C24 *)

\* C24: while a concept is selected and generatedImages is not empty, the
\* images were requested for the selected concept.
C24_ImagesOfSelectedConcept ==
    (forge.generatedImages # <<>> /\ forge.selectedConcept # Null) =>
        forge.imagesFor = forge.selectedConcept

C24_Witness ==
    /\ forge.generatedImages # <<>>
    /\ forge.selectedConcept # Null
    /\ forge.imagesFor # Null
    /\ forge.imagesFor # forge.selectedConcept

---------------------------------------------------------------------------
(* C29 *)

ConceptsOf(data) == Get(data, "concepts").v
IdOf(concept) == Get(concept, "id")

\* C29: after handleGenerateStrategy succeeded every stored concept has a
\* truthy id, which is the id it arrived with when that was truthy and its
\* 1-based position otherwise, and no two stored concepts have the same id.
C29_ConceptIds ==
    (/\ call.fn = "handleGenerateStrategy"
     /\ pc = "done"
     /\ result.state = "fulfilled"
     /\ forge.strategyResult # Null) =>
        LET before == ConceptsOf(result.value)
            after == ConceptsOf(forge.strategyResult)
        IN  /\ Len(after) = Len(before)
            /\ \A j \in 1..Len(after) :
                  /\ TruthyValue(IdOf(after[j]))
                  /\ TruthyValue(IdOf(before[j])) => IdOf(after[j]) = IdOf(before[j])
                  /\ ~TruthyValue(IdOf(before[j])) => IdOf(after[j]) = Number(j)
            /\ \A j, k \in 1..Len(after) :
                  j # k => IdOf(after[j]) # IdOf(after[k])

C29_Witness ==
    /\ call.fn = "handleGenerateStrategy"
    /\ pc = "done"
    /\ forge.strategyResult # Null
    /\ Len(ConceptsOf(forge.strategyResult)) = 2
    /\ IdOf(ConceptsOf(forge.strategyResult)[1]) = IdOf(ConceptsOf(forge.strategyResult)[2])

---------------------------------------------------------------------------
(* C25 *)

\* the loading flag of the handler that made the call c
LoadingFlag(c) ==
    CASE c.fn = "handleGenerate" -> tab.isLoading
      [] c.fn = "handleGenerateAnalysis" -> analyzer.isLoading
      [] c.fn = "handleGenerateStrategy" -> forge.isStrategyLoading
      [] c.fn = "handleGenerateImages" -> forge.isImageLoading
      [] OTHER -> FALSE
\* ... and the loading message it sets through setLoadingMessage; the images
\* handler sets none
LoadingMessage(c) ==
    CASE c.fn = "handleGenerate" -> tab.loadingMessage
      [] c.fn = "handleGenerateAnalysis" -> analyzer.loadingMessage
      [] c.fn = "handleGenerateStrategy" -> forge.loadingMessage
      [] OTHER -> ""
HandlerNames ==
    {"handleGenerate", "handleGenerateAnalysis", "handleGenerateStrategy",
     "handleGenerateImages"}
LoadingWhileRunning(inv) ==
    inv.call.fn \in HandlerNames =>
        /\ Running(inv) => LoadingFlag(inv.call)
        /\ inv.pc = "done" => (~LoadingFlag(inv.call) /\ LoadingMessage(inv.call) = "")

---------------------------------------------------------------------------
(* C28 *)

\* the images the detail panel of the selected concept renders
DisplayedImages ==
    IF forge.strategyResult # Null /\ forge.selectedConcept # Null
    THEN forge.generatedImages ELSE <<>>

\* C28: while the loading flag of a tab is true its result is null, and with
\* the strategy's flag also the selected concept is null and no image is
\* displayed: a result of an earlier request is not shown while loading.
C28_NoStaleResult ==
    /\ tab.isLoading => tab.result = Null
    /\ analyzer.isLoading => analyzer.result = Null
    /\ forge.isStrategyLoading =>
          /\ forge.strategyResult = Null
          /\ forge.selectedConcept = Null
          /\ DisplayedImages = <<>>

\* a second strategy request, started while a concept was selected
C28_Witness ==
    /\ forge.isStrategyLoading
    /\ forge.generatedImages # <<>>
    /\ call.fn = "handleGenerateStrategy"
    /\ pc = "phase2"

---------------------------------------------------------------------------
(* C26 *)

Reported == <<tab.reported, analyzer.reported, forge.reported>>
Shown ==
    <<tab.isLoading, tab.loadingMessage, tab.result,
      analyzer.isLoading, analyzer.loadingMessage, analyzer.result,
      forge.isStrategyLoading, forge.isImageLoading, forge.loadingMessage,
      forge.strategyResult, forge.selectedConcept, forge.generatedImages>>

\* a request was issued only by a handler whose apiKey prop was not empty,
\* and by handleGenerateImages only for a selected concept
KeyedRequests(inv) ==
    (inv.call.fn \in HandlerNames /\ (inv.events # <<>> \/ inv.inflight > 0)) =>
        /\ inv.call.apiKey # ""
        /\ inv.call.fn = "handleGenerateImages" => inv.call.concept # Null

\* a step in which a handler was called and returned before its first request
ReturnsEarly ==
    /\ call'.fn \in HandlerNames
    /\ call'.apiKey = "" \/ (call'.fn = "handleGenerateImages" /\ call'.concept = Null)
    /\ call' # call \/ Reported' # Reported
    /\ app' = app
    /\ other' = other

\* C26: no handler issues a request with an empty apiKey; a handler called
\* with an empty apiKey (handleGenerateImages also without a selected
\* concept) reports an error, issues no request and leaves the loading flags,
\* loading messages, results, selected concept and images as they were.
C26_EmptyKeyReturns ==
    /\ [](KeyedRequests(CurrentInvocation) /\ KeyedRequests(other))
    /\ [][ReturnsEarly =>
             /\ Shown' = Shown
             /\ Reported' # <<NoError, NoError, NoError>>
             /\ events' = <<>>
             /\ inflight' = 0
             /\ pc' = "done"]_vars

C26_Witness ==
    /\ call.fn = "handleGenerateImages"
    /\ call.apiKey # ""
    /\ call.concept = Null
    /\ pc = "done"
    /\ forge.reported = SelectConceptFirst
    /\ forge.strategyResult # Null

---------------------------------------------------------------------------
(* C21 *)

\* the JSON-parsed result a handler stores into the state of its tab
Stored(c) ==
    CASE c.fn = "handleGenerate" -> tab.result
      [] c.fn = "handleGenerateAnalysis" -> analyzer.result
      [] c.fn \in {"handleGenerateStrategy", "handleGenerateStrategyFirstVersion"} ->
            forge.strategyResult
      [] OTHER -> Null

\* C21: a handler that stored a JSON-parsed result made two requests: an
\* earlier grounded request that returned non-empty text, and a later
\* schema-constrained request, issued with that text, whose response was
\* parsed.
C21_TwoRequests ==
    (pc = "done" /\ result.state = "fulfilled" /\ Stored(call) # Null) =>
        \E j, k \in 1..Len(events) :
            /\ j < k
            /\ HasText(events[j], 1)
            /\ IsReq(events[k], 2)
            /\ groundedText = Text(events[j].text)
            /\ HasText(Last(events), 2)

C21_Witness ==
    /\ call.fn = "handleGenerateStrategyFirstVersion"
    /\ pc = "done"
    /\ forge.strategyResult # Null
    /\ Count(events, "req", 0) = 1
    /\ Len(events) = 2

====
